---- MODULE Spec2Model ----
(***************************************************************************)
(* Model of owt-rust (src/src/lib.rs): OWTCriteria and its four methods    *)
(* populate_source_matrix, populate_ideal_interval_vector,                 *)
(* populate_weights_vector and optimize_temperament.                       *)
(*                                                                         *)
(* Numbers.  The program computes in f64.  The model computes in exact     *)
(* arithmetic: the inputs are integers, products and sums are integers,    *)
(* and the inverse of the normal-equations matrix is kept as an integer    *)
(* matrix over one integer denominator, so that the tuning vector is a     *)
(* vector of fractions in lowest terms.  Rounding error of f64 is not      *)
(* modelled.                                                               *)
(*                                                                         *)
(* Indices.  DVec and DMat are indexed from 0 as in the source: a DVec is  *)
(* a function on 0..len-1, a DMat a record of nrows, ncols and at, with    *)
(* at[i][j] the element of row i in 0..nrows-1 and column j in 0..ncols-1. *)
(***************************************************************************)
EXTENDS Integers, FiniteSets, Sequences, TLC

VARIABLES criteria, pc, called, ret, steps

vars == <<criteria, pc, called, ret, steps>>

(***************************************************************************)
(* Bounds of the model and the input values the criteria are drawn from.   *)
(***************************************************************************)
MaxPitches == 3

MaxWeight == 2

MaxScale == 2

KeyWeightValues == {0, 1}

RepeatFactors == {12}

IdealValues == {0, 7}

(***************************************************************************)
(* nalgebra containers.                                                    *)
(***************************************************************************)
\* A container owns its elements: each is computed once, when the container
\* is built.  Stored(f) is the function f with its values evaluated.
Stored(f) == IF f = f THEN f ELSE f

DVecLen(v) == Cardinality(DOMAIN v)

DMatNewZeros(nrows, ncols) ==
  [nrows |-> nrows, ncols |-> ncols,
   at |-> Stored([i \in 0..(nrows - 1) |-> [j \in 0..(ncols - 1) |-> 0]])]

Transpose(m) ==
  [nrows |-> m.ncols, ncols |-> m.nrows,
   at |-> Stored([i \in 0..(m.ncols - 1) |-> [j \in 0..(m.nrows - 1) |-> m.at[j][i]]])]

FromDiag(v) ==
  [nrows |-> DVecLen(v), ncols |-> DVecLen(v),
   at |-> Stored([i \in 0..(DVecLen(v) - 1) |-> [j \in 0..(DVecLen(v) - 1) |->
                    IF i = j THEN v[i] ELSE 0]])]

RECURSIVE SumTo(_, _)
\* f[0] + f[1] + ... + f[k-1]
SumTo(f, k) == IF k <= 0 THEN 0 ELSE SumTo(f, k - 1) + f[k - 1]

MatMul(a, b) ==
  [nrows |-> a.nrows, ncols |-> b.ncols,
   at |-> Stored([i \in 0..(a.nrows - 1) |-> [j \in 0..(b.ncols - 1) |->
                    SumTo([k \in 0..(a.ncols - 1) |-> a.at[i][k] * b.at[k][j]],
                          a.ncols)]])]

MatVec(a, v) ==
  Stored([i \in 0..(a.nrows - 1) |->
            SumTo([k \in 0..(a.ncols - 1) |-> a.at[i][k] * v[k]], a.ncols)])

(***************************************************************************)
(* Exact inverse.  Inv::inv returns None exactly when the matrix is        *)
(* singular; otherwise Some(inverse).  The inverse is adj(m) / det(m),     *)
(* kept as the integer matrix adj(m) and the integer det(m).               *)
(***************************************************************************)
Minor(m, r, c) ==
  [nrows |-> m.nrows - 1, ncols |-> m.ncols - 1,
   at |-> Stored([i \in 0..(m.nrows - 2) |-> [j \in 0..(m.ncols - 2) |->
                    m.at[IF i < r THEN i ELSE i + 1][IF j < c THEN j ELSE j + 1]]])]

Sign(k) == IF k % 2 = 0 THEN 1 ELSE -1

RECURSIVE Det(_)
Det(m) ==
  IF m.nrows = 0 THEN 1
  ELSE SumTo([j \in 0..(m.ncols - 1) |->
                Sign(j) * m.at[0][j] * Det(Minor(m, 0, j))], m.ncols)

Adjugate(m) ==
  [nrows |-> m.nrows, ncols |-> m.ncols,
   at |-> Stored([i \in 0..(m.nrows - 1) |-> [j \in 0..(m.ncols - 1) |->
                    Sign(i + j) * Det(Minor(m, j, i))]])]

Inv(m) ==
  LET det == Det(m)
  IN  IF det = 0
        THEN [some |-> FALSE, num |-> m, den |-> 0]
        ELSE [some |-> TRUE, num |-> Adjugate(m), den |-> det]

Abs(k) == IF k < 0 THEN -k ELSE k

RECURSIVE Gcd(_, _)
Gcd(a, b) == IF b = 0 THEN Abs(a) ELSE Gcd(b, a % Abs(b))

\* the real number p / q (q # 0) as a fraction in lowest terms, denominator > 0
Frac(p, q) ==
  LET g == Gcd(p, q)
      s == IF q < 0 THEN -1 ELSE 1
  IN  <<(s * p) \div g, (s * q) \div g>>

(***************************************************************************)
(* OWTCriteria methods.  c is the OWTCriteria record (self).               *)
(* An index out of the bounds of a DVec panics: a method whose evaluation  *)
(* can panic returns [panic, value].                                       *)
(***************************************************************************)
Panicked == [panic |-> TRUE, value |-> <<>>]

Returned(v) == [panic |-> FALSE, value |-> v]

InBounds(v, i) == i \in DOMAIN v

\* mutant: the "- 1" of line 26 forgotten
neg_col_off_by_one(c, row_index) == row_index % c.num_pitches

neg_col(c, row_index) == (row_index % c.num_pitches) - 1

\* mutant: the wrap "% num_pitches" of line 28 forgotten
pos_col_no_wrap(c, row_index) ==
  (row_index % c.num_pitches) + (row_index \div c.num_pitches)

pos_col(c, row_index) ==
  ((row_index % c.num_pitches) + (row_index \div c.num_pitches)) % c.num_pitches

\* one pass of the loop body: the -1 write, then the +1 write
source_matrix_row(c, row_index) ==
  LET ncols == c.num_pitches - 1
      zeros == [j \in 0..(ncols - 1) |-> 0]
      after_neg ==
        IF neg_col(c, row_index) >= 0 /\ neg_col(c, row_index) < (c.num_pitches - 1)
          THEN [zeros EXCEPT ![neg_col(c, row_index)] = -1]
          ELSE zeros
  IN  IF pos_col(c, row_index) >= 0 /\ pos_col(c, row_index) < (c.num_pitches - 1)
        THEN [after_neg EXCEPT ![pos_col(c, row_index)] = 1]
        ELSE after_neg

populate_source_matrix(c) ==
  LET nrows == c.num_pitches * (c.num_pitches - 1)
      ncols == c.num_pitches - 1
  IN  [DMatNewZeros(nrows, ncols) EXCEPT
         !.at = Stored([row_index \in DOMAIN @ |-> source_matrix_row(c, row_index)])]

\* mutant: the wrap test of line 46 against num_pitches instead of num_pitches - 1
ideal_interval_entry_late_wrap(c, i) ==
  LET base == i \div c.num_pitches
      incr == i % c.num_pitches
      ed   == base + incr
  IN  IF ed < c.num_pitches
        THEN c.ideal_intervals[base]
        ELSE c.ideal_intervals[base] - c.repeat_factor

\* mutant: repeat_factor added instead of subtracted at line 49
ideal_interval_entry_added(c, i) ==
  LET base == i \div c.num_pitches
      incr == i % c.num_pitches
      ed   == base + incr
  IN  IF ed < (c.num_pitches - 1)
        THEN c.ideal_intervals[base]
        ELSE c.ideal_intervals[base] + c.repeat_factor

ideal_interval_entry(c, i) ==
  LET base == i \div c.num_pitches
      incr == i % c.num_pitches
      ed   == base + incr
  IN  IF ed < (c.num_pitches - 1)
        THEN c.ideal_intervals[base]
        ELSE c.ideal_intervals[base] - c.repeat_factor

populate_ideal_interval_vector(c) ==
  LET vec_size == c.num_pitches * (c.num_pitches - 1)
  IN  IF \E i \in 0..(vec_size - 1) :
           ~InBounds(c.ideal_intervals, i \div c.num_pitches)
        THEN Panicked
        ELSE Returned(Stored([i \in 0..(vec_size - 1) |-> ideal_interval_entry(c, i)]))

\* mutant: the two weights added instead of multiplied at line 59
weights_entry_sum(c, i) ==
  LET base == i \div c.num_pitches
      incr == i % c.num_pitches
  IN  c.interval_weights[base] + c.key_weights[incr]

weights_entry(c, i) ==
  LET base == i \div c.num_pitches
      incr == i % c.num_pitches
  IN  c.interval_weights[base] * c.key_weights[incr]

populate_weights_vector(c) ==
  LET vec_size == c.num_pitches * (c.num_pitches - 1)
  IN  IF \E i \in 0..(vec_size - 1) :
           \/ ~InBounds(c.interval_weights, i \div c.num_pitches)
           \/ ~InBounds(c.key_weights, i % c.num_pitches)
        THEN Panicked
        ELSE Returned(Stored([i \in 0..(vec_size - 1) |-> weights_entry(c, i)]))

\* mutant: the weights left out of the matrix inverted at line 67
normal_matrix_unweighted(source_matrix, weights_vector) ==
  MatMul(Transpose(source_matrix), source_matrix)

\* the matrix inverted at line 67: transpose(A) * W * A
normal_matrix(source_matrix, weights_vector) ==
  MatMul(MatMul(Transpose(source_matrix), weights_vector), source_matrix)

\* mutant: the weights left out of the right-hand side at line 68
solve_unweighted(inv, source_matrix, weights_vector, ideal_intervals_vector) ==
  LET num == MatVec(MatMul(inv.num, Transpose(source_matrix)), ideal_intervals_vector)
  IN  Stored([j \in DOMAIN num |-> Frac(num[j], inv.den)])

\* the Some(x) arm: x * transpose(A) * W * b, evaluated left to right,
\* with x = inv.num / inv.den
solve(inv, source_matrix, weights_vector, ideal_intervals_vector) ==
  LET num == MatVec(MatMul(MatMul(inv.num, Transpose(source_matrix)), weights_vector),
                    ideal_intervals_vector)
  IN  Stored([j \in DOMAIN num |-> Frac(num[j], inv.den)])

\* [panic, value, steps]: steps lists the populate_* calls made, in order
optimize_temperament(c) ==
  LET source_matrix == populate_source_matrix(c)
      b == populate_ideal_interval_vector(c)
      w == populate_weights_vector(c)
      weights_vector == FromDiag(w.value)
      inv == Inv(normal_matrix(source_matrix, weights_vector))
  IN  IF b.panic
        THEN [panic |-> TRUE, value |-> <<>>,
              steps |-> <<"populate_source_matrix", "populate_ideal_interval_vector">>]
      ELSE IF w.panic
        THEN [panic |-> TRUE, value |-> <<>>,
              steps |-> <<"populate_source_matrix", "populate_ideal_interval_vector",
                          "populate_weights_vector">>]
      ELSE IF ~inv.some
        THEN [panic |-> TRUE, value |-> <<>>,
              steps |-> <<"populate_source_matrix", "populate_ideal_interval_vector",
                          "populate_weights_vector">>]
      ELSE [panic |-> FALSE,
            value |-> solve(inv, source_matrix, weights_vector, b.value),
            steps |-> <<"populate_source_matrix", "populate_ideal_interval_vector",
                        "populate_weights_vector">>]

(***************************************************************************)
(* The criteria a caller can construct.  The struct has no constructor and *)
(* no validation: any field lengths can be supplied.                       *)
(***************************************************************************)
EqualDivision(n, R) == [ic \in 0..(n - 2) |-> ((ic + 1) * R) \div n]

IdealChoices(n, R) ==
  [0..(n - 2) -> IdealValues] \cup (IF R % n = 0 THEN {EqualDivision(n, R)} ELSE {})

CriteriaOf(n) ==
  UNION {{[title |-> "Testing", num_pitches |-> n, repeat_factor |-> R,
           ideal_intervals |-> ii, interval_weights |-> iw, key_weights |-> kw] :
            ii \in IdealChoices(n, R),
            iw \in [0..(n - 2) -> 0..MaxWeight],
            kw \in [0..(n - 1) -> KeyWeightValues]} : R \in RepeatFactors}

WellFormed(c) ==
  /\ c.num_pitches >= 2
  /\ DVecLen(c.ideal_intervals) = c.num_pitches - 1
  /\ DVecLen(c.interval_weights) = c.num_pitches - 1
  /\ DVecLen(c.key_weights) = c.num_pitches

WellFormedCriteria == UNION {CriteriaOf(n) : n \in 2..MaxPitches}

Truncate(v) == [i \in 0..(DVecLen(v) - 2) |-> v[i]]

Extend(v, e) == [i \in 0..DVecLen(v) |-> IF i < DVecLen(v) THEN v[i] ELSE e]

MalformedCriteria ==
  CriteriaOf(1) \cup
  UNION {{[c EXCEPT !.ideal_intervals = Truncate(@)],
          [c EXCEPT !.interval_weights = Truncate(@)],
          [c EXCEPT !.key_weights = Truncate(@)],
          [c EXCEPT !.ideal_intervals = Extend(@, 0)],
          [c EXCEPT !.interval_weights = Extend(@, 1)],
          [c EXCEPT !.key_weights = Extend(@, 1)]} : c \in CriteriaOf(2)}

(***************************************************************************)
(* State machine: a criteria value is constructed, then one of its methods *)
(* is called on it and either returns or panics.                           *)
(***************************************************************************)
Init ==
  /\ criteria \in WellFormedCriteria \cup MalformedCriteria
  /\ pc = "ready"
  /\ called = "none"
  /\ ret = <<>>
  /\ steps = <<>>

CallPopulateSourceMatrix ==
  /\ pc = "ready"
  /\ called' = "populate_source_matrix"
  /\ ret' = populate_source_matrix(criteria)
  /\ pc' = "returned"
  /\ steps' = <<"populate_source_matrix">>
  /\ UNCHANGED criteria

CallPopulateIdealIntervalVector ==
  /\ pc = "ready"
  /\ called' = "populate_ideal_interval_vector"
  /\ LET r == populate_ideal_interval_vector(criteria)
     IN  /\ ret' = r.value
         /\ pc' = IF r.panic THEN "panicked" ELSE "returned"
  /\ steps' = <<"populate_ideal_interval_vector">>
  /\ UNCHANGED criteria

CallPopulateWeightsVector ==
  /\ pc = "ready"
  /\ called' = "populate_weights_vector"
  /\ LET r == populate_weights_vector(criteria)
     IN  /\ ret' = r.value
         /\ pc' = IF r.panic THEN "panicked" ELSE "returned"
  /\ steps' = <<"populate_weights_vector">>
  /\ UNCHANGED criteria

CallOptimizeTemperament ==
  /\ pc = "ready"
  /\ called' = "optimize_temperament"
  /\ LET r == optimize_temperament(criteria)
     IN  /\ ret' = r.value
         /\ pc' = IF r.panic THEN "panicked" ELSE "returned"
         /\ steps' = r.steps
  /\ UNCHANGED criteria

Next ==
  \/ CallPopulateSourceMatrix
  \/ CallPopulateIdealIntervalVector
  \/ CallPopulateWeightsVector
  \/ CallOptimizeTemperament

Spec == Init /\ [][Next]_vars

(***************************************************************************)
(* Properties.                                                             *)
(***************************************************************************)
n == criteria.num_pitches

Rows == 0..(n * (n - 1) - 1)

Cols == 0..(n - 2)

Lcm(a, b) == (a \div Gcd(a, b)) * b

RECURSIVE LcmOfDenominators(_, _)
\* least common multiple of the denominators of x[0] .. x[k-1]
LcmOfDenominators(x, k) ==
  IF k <= 0 THEN 1 ELSE Lcm(LcmOfDenominators(x, k - 1), x[k - 1][2])

\* m * x = rhs, for an integer matrix m, an integer vector rhs and a vector x
\* of fractions <<numerator, denominator>>
MatTimesFractionsEquals(m, x, rhs) ==
  LET d == LcmOfDenominators(x, m.ncols)
  IN  \A i \in 0..(m.nrows - 1) :
        SumTo([j \in 0..(m.ncols - 1) |->
                 m.at[i][j] * x[j][1] * (d \div x[j][2])], m.ncols) = rhs[i] * d

\* A, b, W of the criteria in the current state and the two sides of the
\* weighted normal equations built from them
ClaimA == populate_source_matrix(criteria)

ClaimB == populate_ideal_interval_vector(criteria).value

ClaimW == FromDiag(populate_weights_vector(criteria).value)

ClaimM == MatMul(MatMul(Transpose(ClaimA), ClaimW), ClaimA)

ClaimRhs == MatVec(MatMul(Transpose(ClaimA), ClaimW), ClaimB)

\* C1: for a well-formed criteria whose matrix M = At W A is invertible,
\* optimize_temperament returns a vector x of num_pitches - 1 entries with
\* (At W A) x = At W b.
ThmC1_NormalEquations ==
  (called = "optimize_temperament" /\ WellFormed(criteria) /\ Det(ClaimM) # 0)
    => /\ pc = "returned"
       /\ DVecLen(ret) = n - 1
       /\ MatTimesFractionsEquals(ClaimM, ret, ClaimRhs)

WitC1_SolvedThreePitches ==
  /\ called = "optimize_temperament"
  /\ pc = "returned"
  /\ WellFormed(criteria)
  /\ n = 3
  /\ ret[0][2] > 1
  /\ ret[1][1] # 0

\* C2: for num_pitches >= 2 the matrix returned by populate_source_matrix is
\* n(n-1) by (n-1); in row r, with interval_class = r / n and key = r % n,
\* column key-1 holds -1 when it is in 0..n-2, column (key+interval_class) % n
\* holds +1 when it is below n-1, and every other column holds 0.
ThmC2_SourceMatrixEntries ==
  (called = "populate_source_matrix" /\ n >= 2)
    => /\ pc = "returned"
       /\ ret.nrows = n * (n - 1)
       /\ ret.ncols = n - 1
       /\ DOMAIN ret.at = Rows
       /\ \A r \in Rows : DOMAIN ret.at[r] = Cols
       /\ \A r \in Rows :
            LET interval_class == r \div n
                key == r % n
                neg_index == key - 1
                pos_index == (key + interval_class) % n
            IN  /\ (0 <= neg_index /\ neg_index < n - 1) => ret.at[r][neg_index] = -1
                /\ pos_index < n - 1 => ret.at[r][pos_index] = 1
                /\ \A j \in Cols \ {neg_index, pos_index} : ret.at[r][j] = 0

WitC2_WrappedRow ==
  /\ called = "populate_source_matrix"
  /\ n = 3
  /\ ret.at[1][0] = -1 /\ ret.at[1][1] = 1
  /\ ret.at[5][0] = 1 /\ ret.at[5][1] = -1

\* C3: for a well-formed criteria populate_ideal_interval_vector returns
\* n(n-1) entries; entry r is ideal_intervals[interval_class] when
\* interval_class + key < n - 1 and ideal_intervals[interval_class] -
\* repeat_factor when interval_class + key >= n - 1.
ThmC3_IdealIntervalVector ==
  (called = "populate_ideal_interval_vector" /\ WellFormed(criteria))
    => /\ pc = "returned"
       /\ DOMAIN ret = Rows
       /\ \A r \in Rows :
            LET interval_class == r \div n
                key == r % n
            IN  /\ interval_class + key < n - 1
                     => ret[r] = criteria.ideal_intervals[interval_class]
                /\ interval_class + key >= n - 1
                     => ret[r] = criteria.ideal_intervals[interval_class]
                                   - criteria.repeat_factor

WitC3_BothCases ==
  /\ called = "populate_ideal_interval_vector"
  /\ pc = "returned"
  /\ WellFormed(criteria)
  /\ n = 3
  /\ criteria.ideal_intervals[1] = 7
  /\ ret[0] = criteria.ideal_intervals[0]
  /\ ret[3] = 7
  /\ ret[4] = 7 - criteria.repeat_factor

\* C4: for a well-formed criteria populate_weights_vector returns n(n-1)
\* entries, entry r being interval_weights[r / n] * key_weights[r % n].
ThmC4_WeightsVector ==
  (called = "populate_weights_vector" /\ WellFormed(criteria))
    => /\ pc = "returned"
       /\ DOMAIN ret = Rows
       /\ \A r \in Rows :
            ret[r] = criteria.interval_weights[r \div n] * criteria.key_weights[r % n]

WitC4_ProductOfTwo ==
  /\ called = "populate_weights_vector"
  /\ pc = "returned"
  /\ WellFormed(criteria)
  /\ n = 3
  /\ criteria.interval_weights[1] = 2
  /\ criteria.key_weights[1] = 1
  /\ ret[4] = 2
  /\ ret[0] = 0

\* C5 (as claimed): when M = At W A is not invertible, optimize_temperament
\* ends with an error reported to its caller, never with a panic.
CexC5_SingularIsReportedError ==
  (called = "optimize_temperament" /\ WellFormed(criteria) /\ Det(ClaimM) = 0)
    => pc = "error"

FieldMalformed(c) ==
  IF c.num_pitches < 2 THEN "num_pitches"
  ELSE IF DVecLen(c.ideal_intervals) # c.num_pitches - 1 THEN "ideal_intervals"
  ELSE IF DVecLen(c.interval_weights) # c.num_pitches - 1 THEN "interval_weights"
  ELSE "key_weights"

\* C6 (as claimed): a malformed criteria is rejected with an error naming
\* the malformed field before any populate_* step runs.
CexC6_MalformedRejectedFirst ==
  (called = "optimize_temperament" /\ ~WellFormed(criteria))
    => /\ pc = "error"
       /\ ret = FieldMalformed(criteria)
       /\ steps = <<>>

\* interval class ic touches unknown j: some row of that class has a nonzero
\* coefficient in column j
Touches(ic, j) ==
  \E key \in 0..(n - 1) : ClaimA.at[ic * n + key][j] # 0

\* C7 (as claimed): when interval_weights is zero on every interval class
\* touching some unknown, optimize_temperament reports the singular-system
\* error and returns no tuning vector.
CexC7_UnweightedUnknownIsReportedError ==
  (/\ called = "optimize_temperament"
   /\ WellFormed(criteria)
   /\ \E j \in Cols :
        \A ic \in 0..(n - 2) : Touches(ic, j) => criteria.interval_weights[ic] = 0)
    => pc = "error"

Scaled(c, k) ==
  [c EXCEPT !.interval_weights = [ic \in DOMAIN @ |-> k * @[ic]]]

\* C8: for a well-formed criteria with a non-singular system, multiplying
\* every interval weight by a positive constant leaves the vector returned
\* by optimize_temperament unchanged.
ThmC8_ScaleInvariant ==
  (called = "optimize_temperament" /\ WellFormed(criteria) /\ pc = "returned")
    => \A k \in 2..MaxScale :
         LET r == optimize_temperament(Scaled(criteria, k))
         IN  ~r.panic /\ r.value = ret

WitC8_ScaledSolve ==
  /\ called = "optimize_temperament"
  /\ pc = "returned"
  /\ WellFormed(criteria)
  /\ n = 3
  /\ MaxScale >= 2
  /\ Scaled(criteria, MaxScale) # criteria
  /\ ret[0][1] # 0
  /\ ret[1][2] > 1

NonZeros(r) == {j \in Cols : ret.at[r][j] # 0}

InCols(j) == j >= 0 /\ j < n - 1

\* C9: for num_pitches >= 2 every row of the matrix returned by
\* populate_source_matrix has at most two nonzero entries, each +1 or -1,
\* and the -1 write and the +1 write of a row never go to the same column.
ThmC9_RowShape ==
  (called = "populate_source_matrix" /\ n >= 2)
    => \A r \in Rows :
         /\ Cardinality(NonZeros(r)) <= 2
         /\ \A j \in Cols : ret.at[r][j] \in {-1, 0, 1}
         /\ Cardinality({j \in Cols : ret.at[r][j] = -1}) <= 1
         /\ Cardinality({j \in Cols : ret.at[r][j] = 1}) <= 1
         /\ (InCols(neg_col(criteria, r)) /\ InCols(pos_col(criteria, r)))
              => neg_col(criteria, r) # pos_col(criteria, r)
         /\ InCols(neg_col(criteria, r)) => ret.at[r][neg_col(criteria, r)] = -1

WitC9_RowCounts ==
  /\ called = "populate_source_matrix"
  /\ n = 3
  /\ Cardinality(NonZeros(0)) = 1
  /\ Cardinality(NonZeros(1)) = 2
  /\ Cardinality(NonZeros(2)) = 1

EquallyDivided(c) ==
  \A ic \in 0..(c.num_pitches - 2) :
    c.num_pitches * c.ideal_intervals[ic] = (ic + 1) * c.repeat_factor

\* C10: when ideal_intervals divides the cycle equally, ideal_intervals[ic] =
\* (ic+1) R / n, the equally spaced tuning x[j] = (j+1) R / n satisfies
\* A[r,:] x = b[r] on every row r (both sides multiplied by n here).
ThmC10_WrapAgrees ==
  (/\ called = "populate_ideal_interval_vector"
   /\ WellFormed(criteria)
   /\ EquallyDivided(criteria))
    => /\ pc = "returned"
       /\ \A r \in Rows :
            SumTo([j \in Cols |-> ClaimA.at[r][j] * (j + 1) * criteria.repeat_factor],
                  n - 1) = n * ret[r]

WitC10_EqualDivision ==
  /\ called = "populate_ideal_interval_vector"
  /\ pc = "returned"
  /\ WellFormed(criteria)
  /\ EquallyDivided(criteria)
  /\ n = 3
  /\ criteria.ideal_intervals[0] = 4
  /\ ret[2] = 4 - criteria.repeat_factor
  /\ ret[5] = 8 - criteria.repeat_factor

====
